---------------------------- MODULE Spec2Model ----------------------------
(***************************************************************************)
(* CRYPTOCARDS burn worker (src/burn-worker.cjs and its two earlier        *)
(* variants src/unnamed/part_000, src/unnamed/part_001).                   *)
(*                                                                         *)
(* The module models                                                       *)
(*   - the JavaScript number arithmetic the worker applies to lamports     *)
(*     (IEEE-754 binary64 products and quotients, Math.floor),             *)
(*   - u64ToBufferLE / makeBurnInstruction,                                *)
(*   - the /run-burn handler and runBurnSwap as a state machine whose      *)
(*     steps are the awaited network calls.                                *)
(***************************************************************************)
EXTENDS Integers, Sequences, FiniteSets, TLC

(***************************************************************************)
(* Natural numbers beyond 2^31: little-endian sequences of 15-bit limbs.   *)
(* TLC's integers are 32 bits wide; the worker's numbers are doubles with  *)
(* a 53-bit significand and BigInts of 64 bits.                            *)
(***************************************************************************)
Base == 2^15

RECURSIVE BigNorm(_)
BigNorm(a) ==
  IF a = <<>> THEN <<>>
  ELSE IF a[Len(a)] = 0 THEN BigNorm(SubSeq(a, 1, Len(a) - 1))
  ELSE a

BigFromNat(n) ==
  BigNorm(<<n % Base, (n \div Base) % Base, n \div (Base * Base)>>)

\* defined for values below 2^31 (at most three limbs, the third below 2)
BigToNat(a) ==
  (IF Len(a) >= 1 THEN a[1] ELSE 0)
  + (IF Len(a) >= 2 THEN a[2] * Base ELSE 0)
  + (IF Len(a) >= 3 THEN a[3] * Base * Base ELSE 0)

RECURSIVE BigAddC(_, _, _)
BigAddC(a, b, c) ==
  IF a = <<>> /\ b = <<>> THEN (IF c = 0 THEN <<>> ELSE <<c>>)
  ELSE LET x == IF a = <<>> THEN 0 ELSE Head(a)
           y == IF b = <<>> THEN 0 ELSE Head(b)
           t == x + y + c
       IN  <<t % Base>> \o BigAddC(IF a = <<>> THEN <<>> ELSE Tail(a),
                                   IF b = <<>> THEN <<>> ELSE Tail(b),
                                   t \div Base)

BigAdd(a, b) == BigNorm(BigAddC(a, b, 0))

RECURSIVE BigMulSmallC(_, _, _)
BigMulSmallC(a, k, c) ==
  IF a = <<>> THEN (IF c = 0 THEN <<>> ELSE <<c>>)
  ELSE LET t == Head(a) * k + c
       IN  <<t % Base>> \o BigMulSmallC(Tail(a), k, t \div Base)

\* a * k for 0 <= k < Base
BigMulSmall(a, k) == BigNorm(BigMulSmallC(a, k, 0))

RECURSIVE BigMul(_, _)
BigMul(a, b) ==
  IF a = <<>> \/ b = <<>> THEN <<>>
  ELSE BigAdd(BigMulSmall(b, Head(a)),
              LET rest == BigMul(Tail(a), b)
              IN  IF rest = <<>> THEN <<>> ELSE <<0>> \o rest)

RECURSIVE NatBitLen(_)
NatBitLen(n) == IF n = 0 THEN 0 ELSE 1 + NatBitLen(n \div 2)

LimbBits == NatBitLen(Base - 1)

BigBitLen(a) ==
  IF a = <<>> THEN 0 ELSE LimbBits * (Len(a) - 1) + NatBitLen(a[Len(a)])

\* bit k (k >= 0, bit 0 the least significant)
BigTestBit(a, k) ==
  LET i == (k \div LimbBits) + 1
  IN  IF i > Len(a) THEN 0 ELSE (a[i] \div 2^(k % LimbBits)) % 2

\* a >> k
BigShr(a, k) ==
  LET q == k \div LimbBits
      b == k % LimbBits
      d == IF q >= Len(a) THEN <<>> ELSE SubSeq(a, q + 1, Len(a))
  IN  BigNorm([i \in 1..Len(d) |->
                 (d[i] \div 2^b)
                 + (IF i < Len(d) THEN (d[i + 1] % 2^b) * 2^(LimbBits - b) ELSE 0)])

\* a << k
BigShl(a, k) ==
  IF a = <<>> THEN <<>>
  ELSE BigMulSmall([i \in 1..(k \div LimbBits) |-> 0] \o a, 2^(k % LimbBits))

RECURSIVE BigLess(_, _)
BigLess(a, b) ==
  IF Len(a) # Len(b) THEN Len(a) < Len(b)
  ELSE IF a = <<>> THEN FALSE
  ELSE IF a[Len(a)] # b[Len(b)] THEN a[Len(a)] < b[Len(b)]
  ELSE BigLess(SubSeq(a, 1, Len(a) - 1), SubSeq(b, 1, Len(b) - 1))

(***************************************************************************)
(* JavaScript numbers.  A finite non-negative double is [m, e], standing   *)
(* for m / 2^e with m a natural number of at most 53 bits (and e >= 0,     *)
(* which holds for every value the worker computes from lamports below     *)
(* 2^31 and configuration values below 2^20); NaN is Number('abc').        *)
(***************************************************************************)
SignificandBits == 53

NaN == [m |-> <<>>, e |-> 0 - 1]

\* round-to-nearest, ties-to-even, of p / 2^e to 53 significant bits
RoundToDouble(p, e) ==
  LET s == BigBitLen(p) - SignificandBits
  IN  IF s <= 0 THEN [m |-> p, e |-> e]
      ELSE LET q      == BigShr(p, s)
               half   == BigTestBit(p, s - 1) = 1
               sticky == BigShl(BigShr(p, s - 1), s - 1) # p
               up     == half /\ (sticky \/ BigTestBit(q, 0) = 1)
           IN  [m |-> IF up THEN BigAdd(q, <<1>>) ELSE q, e |-> e - s]

\* x * d for a natural x < 2^31 and a double d (the JS operator *)
JSMul(x, d) ==
  IF d = NaN THEN NaN
  ELSE RoundToDouble(BigMul(BigFromNat(x), d.m), d.e)

\* Long division n / d, one quotient bit per step: s.m / 2^s.e is the quotient
\* so far and s.r the remainder.
DivStep(s) ==
  LET r2  == 2 * s.r
      bit == IF r2 >= s.d THEN 1 ELSE 0
  IN  [m |-> BigNorm(BigAddC(s.m, s.m, bit)), e |-> s.e + 1,
       r |-> r2 - bit * s.d, d |-> s.d]

DivStep4(s) == DivStep(DivStep(DivStep(DivStep(s))))

DivStep16(s) == DivStep4(DivStep4(DivStep4(DivStep4(s))))

\* steps until the division is exact or two bits more than a significand are known
RECURSIVE DivBits(_)
DivBits(s) ==
  IF s.r = 0 \/ BigBitLen(s.m) >= SignificandBits + 2 THEN s
  ELSE DivBits(DivStep16(s))

\* n / d for naturals n, d with 0 < d <= 10^9 (the JS operator /): the exact
\* quotient rounded once; a non-zero remainder is a sticky lowest bit.
JSDiv(n, d) ==
  LET x == DivBits([m |-> BigFromNat(n \div d), e |-> 0, r |-> n % d, d |-> d])
      m == IF x.r # 0 /\ BigTestBit(x.m, 0) = 0 THEN BigAdd(x.m, <<1>>) ELSE x.m
  IN  RoundToDouble(m, x.e)

\* a < b (the JS operator <: false when either side is NaN)
JSLess(a, b) ==
  IF a = NaN \/ b = NaN THEN FALSE
  ELSE IF a.e >= b.e THEN BigLess(a.m, BigShl(b.m, a.e - b.e))
  ELSE BigLess(BigShl(a.m, b.e - a.e), b.m)

\* x <= 0 for a non-negative double or NaN
JSIsZero(a) == a # NaN /\ a.m = <<>>

\* Math.floor of a non-negative double, as a natural below 2^31
MathFloor(a) == BigToNat(BigShr(a.m, a.e))

(***************************************************************************)
(* A decimal configuration string ("0.85") is [num, scale] for num/scale,   *)
(* scale a power of ten; Number(str) is the double nearest to that          *)
(* rational, which is what the correctly rounded quotient num/scale is.     *)
(* A string that is no number ("abc") is NotANumber; Number of it is NaN.   *)
(***************************************************************************)
Dec(num, scale) == [num |-> num, scale |-> scale]

NotANumber == Dec(0, 0)

NumberOf(str) == IF str = NotANumber THEN NaN ELSE JSDiv(str.num, str.scale)

LAMPORTS_PER_SOL == 1000000000

(***************************************************************************)
(* runBurnSwap's arithmetic, burn-worker.cjs lines 307-309.                *)
(***************************************************************************)
feeReserveLamports(FEE_RESERVE_SOL) ==
  MathFloor(JSMul(LAMPORTS_PER_SOL, FEE_RESERVE_SOL))

MaxNat(a, b) == IF a >= b THEN a ELSE b

spendableLamports(lamports, FEE_RESERVE_SOL) ==
  MaxNat(0, lamports - feeReserveLamports(FEE_RESERVE_SOL))

\* a reserve or fraction that is NaN makes every later value NaN, written -1:
\* like every amount that is not positive it fails the test of line 311
swapLamports(lamports, FEE_RESERVE_SOL, SAFETY_FRACTION) ==
  IF FEE_RESERVE_SOL = NaN \/ SAFETY_FRACTION = NaN THEN 0 - 1
  ELSE MathFloor(JSMul(spendableLamports(lamports, FEE_RESERVE_SOL), SAFETY_FRACTION))

\* the gate of line 227 one lamport off
belowThresholdOffByOne(lamports, BURN_THRESHOLD_SOL) ==
  JSLess(JSDiv(lamports + 1, LAMPORTS_PER_SOL), BURN_THRESHOLD_SOL)

\* the threshold gate, lines 221 and 227
belowThreshold(lamports, BURN_THRESHOLD_SOL) ==
  JSLess(JSDiv(lamports, LAMPORTS_PER_SOL), BURN_THRESHOLD_SOL)

(***************************************************************************)
(* u64ToBufferLE and makeBurnInstruction, burn-worker.cjs lines 83-105.    *)
(* A BigInt is a limb sequence; a Buffer is a sequence of bytes.           *)
(***************************************************************************)
\* Number(n & 0xffn)
LowByte(n) == IF n = <<>> THEN 0 ELSE n[1] % 256

\* the loop body of u64ToBufferLE, from index i on (0-based, as in the code)
RECURSIVE u64Loop(_, _, _)
u64Loop(b, n, i) ==
  IF i >= 8 THEN b
  ELSE u64Loop([b EXCEPT ![i + 1] = LowByte(n)], BigShr(n, 8), i + 1)

\* the loop of lines 86-89 filling the buffer from its last byte: big-endian
RECURSIVE u64LoopBE(_, _, _)
u64LoopBE(b, n, i) ==
  IF i >= 8 THEN b
  ELSE u64LoopBE([b EXCEPT ![8 - i] = LowByte(n)], BigShr(n, 8), i + 1)

u64ToBufferBE(nBig) == u64LoopBE([i \in 1..8 |-> 0], nBig, 0)

u64ToBufferLE(nBig) == u64Loop([i \in 1..8 |-> 0], nBig, 0)

TOKEN_PROGRAM_ID == "TokenkegQfeZyiNwAJbNbGKPFXCWuBvf9Ss623VQ5DA"
TOKEN_2022_PROGRAM_ID == "TokenzQdBNbLqP5VEhdkAS6EPFLC1PHnBqCXEpPxuEb"

makeBurnInstruction(tokenAccount, mint, owner, amountRaw) ==
  [programId |-> TOKEN_PROGRAM_ID,
   keys |-> << [pubkey |-> tokenAccount, isSigner |-> FALSE, isWritable |-> TRUE],
               [pubkey |-> mint,         isSigner |-> FALSE, isWritable |-> TRUE],
               [pubkey |-> owner,        isSigner |-> TRUE,  isWritable |-> FALSE] >>,
   data |-> <<8>> \o u64ToBufferLE(amountRaw)]

(***************************************************************************)
(* Strings are sequences of characters; String.prototype.trim.             *)
(***************************************************************************)
\* what String.prototype.trim strips; "nbsp" is U+00A0, the byte A0 of a header
WhiteSpace == {" ", "\t", "\n", "nbsp"}

Trim(str) ==
  LET keep == {i \in 1..Len(str) : str[i] \notin WhiteSpace}
  IN  IF keep = {} THEN <<>>
      ELSE SubSeq(str, CHOOSE i \in keep : \A j \in keep : i <= j,
                       CHOOSE i \in keep : \A j \in keep : i >= j)

(***************************************************************************)
(* Configuration, burn-worker.cjs lines 12-58.  env holds the environment  *)
(* strings after the `|| default`; the module-level constants are those of *)
(* the source.  Addresses are short names: the wallet "W", another key     *)
(* "X", the target mint "T", other mints "A" "B" "C" "D"; "0OIl" is not    *)
(* base58.                                                                 *)
(***************************************************************************)
SOL_MINT_ADDRESS == "So11111111111111111111111111111111111111112"

Base58Addresses == {"W", "X", "T", "A", "B", "C", "D", SOL_MINT_ADDRESS}

BURN_WALLET(env)         == env.BURN_WALLET
BURN_WALLET_SECRET(env)  == env.BURN_WALLET_SECRET
CRYPTOCARDS_MINT(env)    == env.CRYPTOCARDS_MINT
BURN_THRESHOLD_SOL(env)  == NumberOf(env.BURN_THRESHOLD_SOL)
FEE_RESERVE_SOL(env)     == NumberOf(env.BURN_FEE_RESERVE_SOL)
SAFETY_FRACTION(env)     == NumberOf(env.BURN_SAFETY_FRACTION)
BURN_AUTH_TOKEN(env)     == Trim(env.BURN_AUTH_TOKEN)

\* BURN_WALLET_SECRET: unset, text that is no JSON, JSON that is no array, an
\* array that is no secret key, or the secret key of the address `pub`
Secret(kind, pub) == [kind |-> kind, pub |-> pub]

\* getBurnWalletKeypair: the keypair's public key, or "" for null
getBurnWalletKeypair(secret) ==
  IF secret.kind = "unset" THEN ""
  ELSE IF secret.kind = "notjson" THEN ""
  ELSE IF secret.kind = "notarray" THEN ""
  ELSE IF secret.kind = "badkey" THEN ""
  ELSE secret.pub

\* runBurnSwap's first check, lines 189-194
configInvalid(env) ==
  \/ BURN_WALLET(env) = ""
  \/ CRYPTOCARDS_MINT(env) = ""
  \/ BURN_THRESHOLD_SOL(env) = NaN
  \/ JSIsZero(BURN_THRESHOLD_SOL(env))

\* the comparison of line 208 as the earlier variant has it: a warning only
pubkeyMismatchOnlyWarned(keypairPub, burnPubkey) == TRUE

\* burnKeypair.publicKey.equals(burnPubkey), line 208
pubkeyEquals(keypairPub, burnPubkey) == keypairPub = burnPubkey

DefaultEnv ==
  [BURN_WALLET |-> "W", BURN_WALLET_SECRET |-> Secret("key", "W"),
   CRYPTOCARDS_MINT |-> "T", BURN_THRESHOLD_SOL |-> Dec(2, 100),
   BURN_FEE_RESERVE_SOL |-> Dec(0, 1), BURN_SAFETY_FRACTION |-> Dec(85, 100),
   BURN_AUTH_TOKEN |-> <<"s", "3", "\n">>]

(***************************************************************************)
(* The x-burn-auth check of POST /run-burn, lines 470-496.                 *)
(***************************************************************************)
NoHeader == [present |-> FALSE, value |-> <<>>]
Header(v) == [present |-> TRUE, value |-> v]

\* String(req.headers['x-burn-auth'] || '').trim()
headerToken(hdr) == Trim(IF hdr.present THEN hdr.value ELSE <<>>)

\* the header compared with the secret and nothing else: no test that a secret
\* is configured, none that the header is present
authRejectCompareOnly(hdr, token) ==
  IF headerToken(hdr) # token THEN 401 ELSE 0

\* the check of lines 477-496 without the comparison of line 484: any header
\* that is present passes
authRejectPresenceOnly(hdr, token) ==
  IF token = <<>> THEN 500
  ELSE IF headerToken(hdr) = <<>> THEN 401
  ELSE 0

\* the status the handler answers with before any run: 0 when it goes on
authReject(hdr, token) ==
  IF token = <<>> THEN 500
  ELSE IF headerToken(hdr) = <<>> \/ headerToken(hdr) # token THEN 401
  ELSE 0

(***************************************************************************)
(* What the ledger and the aggregator may answer.                          *)
(***************************************************************************)
\* requests that arrive in a behaviour
MaxRuns == 2
\* calls that fail in a behaviour
MaxFaults == 1
\* items one enumeration of token accounts returns at most
MaxAccounts == 3
\* requests in flight at once
NumSlots == 2

Slots == 1..NumSlots

\* connection.getBalance: 0, 0.01 SOL, 0.02 SOL less one lamport, 0.02 SOL, 1 SOL
Balances == {0, 10000000, 19999999, 20000000, 1000000000}

\* an item of getParsedTokenAccountsByOwner(...).value
Item(pubkey, mint, amount) ==
  [pubkey |-> pubkey, hasInfo |-> TRUE, mint |-> mint, hasAmount |-> TRUE,
   amount |-> amount, decimals |-> 6]

TokenProgramItems ==
  << Item("a1", "A", <<5>>), Item("a2", "B", <<7>>), Item("a3", "C", <<0, 1>>),
     Item("a4", "T", <<9>>), Item("a5", "D", <<1>>) >>

Token2022Items ==
  << Item("b1", "A", <<>>), Item("b2", SOL_MINT_ADDRESS, <<3>>),
     [Item("b3", "", <<>>) EXCEPT !.hasInfo = FALSE] >>

ProgramIds == <<TOKEN_PROGRAM_ID, TOKEN_2022_PROGRAM_ID>>

MinNat(a, b) == IF a <= b THEN a ELSE b

Listings(program) ==
  LET all == IF program = 1 THEN TokenProgramItems ELSE Token2022Items
  IN  { SubSeq(all, 1, k) : k \in 0..MinNat(MaxAccounts, Len(all)) }

\* connection.getTokenAccountBalance(ata).value.amount: '0', '1234', 2^64 - 1
TargetAmounts == { <<>>, <<1234>>, <<32767, 32767, 32767, 32767, 15>> }

\* the x-burn-auth header of a request
Headers ==
  { NoHeader, Header(<<>>), Header(<<"s", "3">>), Header(<<"s", "3", "nbsp">>),
    Header(<<"x">>) }

(***************************************************************************)
(* State.  req[r] is the handler of the request in slot r: where it is     *)
(* (pc names the awaited call), runBurnSwap's locals, and a record of the  *)
(* network calls the run made (calls) and of what each doJupiterSwap       *)
(* returned (rets).                                                        *)
(***************************************************************************)
VARIABLES
  env,       \* the process environment, fixed at start
  conc,      \* how many requests the clients keep in flight at once
  runsLeft,  \* requests still to arrive
  faults,    \* failures the ledger and the aggregator may still answer with
  req,       \* the handlers
  last,      \* the last response sent
  probe      \* input and output of a pure function under test

vars == <<env, conc, runsLeft, faults, req, last, probe>>

NoResult == [ok |-> FALSE, error |-> "none", swaps |-> <<>>,
             burnedAmountRaw |-> <<>>, burnSignature |-> 0]

NoLeg == [inputMint |-> "", amount |-> <<>>, wrapAndUnwrapSol |-> FALSE]

NoIx == [programId |-> "", keys |-> <<>>, data |-> <<>>]

IdleReq ==
  [pc |-> "idle", hdr |-> NoHeader, ran |-> FALSE, lamports |-> 0 - 1, leg |-> 0,
   cur |-> NoLeg,
   sig |-> 0, scanPos |-> 0, tokenAccounts |-> <<>>, amountRaw |-> <<>>,
   burnIx |-> NoIx, burnSignature |-> 0, burnedAmountRaw |-> <<>>,
   swaps |-> <<>>, calls |-> <<>>, rets |-> <<>>, unverified |-> {},
   routeless |-> {},
   result |-> NoResult, status |-> 0]

NoProbe == [fn |-> "none"]

Call(op, leg, args) ==
  [op |-> op, leg |-> leg, inputMint |-> args.inputMint, outputMint |-> args.outputMint,
   amount |-> args.amount, wrapAndUnwrapSol |-> args.wrapAndUnwrapSol, data |-> args.data]

NoArgs == [inputMint |-> "", outputMint |-> "", amount |-> <<>>,
           wrapAndUnwrapSol |-> FALSE, data |-> <<>>]

\* the outcomes of a call: its success, and while faults remain its failures
Outcomes(failures) == {"ok"} \cup (IF faults > 0 THEN failures ELSE {})

Spend(o) == faults' = IF o = "ok" THEN faults ELSE faults - 1

(***************************************************************************)
(* runBurnSwap's results.                                                  *)
(***************************************************************************)
Failure(error) == [NoResult EXCEPT !.error = error]

\* the catch of line 416: { ok: false, error: err.message }
Exception == Failure("exception")

Finish(me, result) == [me EXCEPT !.pc = "done", !.result = result]

\* the return of lines 407-415, were ok to mean that some leg or the burn went through
FinishOkIfSomethingSucceeded(me) ==
  Finish(me, [ok |-> me.swaps # <<>> \/ me.burnSignature # 0,
              error |-> IF me.swaps # <<>> \/ me.burnSignature # 0 THEN "" ELSE "exception",
              swaps |-> me.swaps,
              burnedAmountRaw |-> me.burnedAmountRaw,
              burnSignature |-> me.burnSignature])

\* the return of lines 407-415
FinishOk(me) ==
  Finish(me, [ok |-> TRUE, error |-> "", swaps |-> me.swaps,
              burnedAmountRaw |-> me.burnedAmountRaw,
              burnSignature |-> me.burnSignature])

(***************************************************************************)
(* The token loop of runBurnSwap, lines 334-356.                           *)
(***************************************************************************)
\* a holding the loop swaps: none of the `continue`s of lines 336-342 applies
eligible(ta, cryptoMint) ==
  /\ ta.mint # ""
  /\ ta.mint # cryptoMint
  /\ ta.mint # SOL_MINT_ADDRESS
  /\ ta.amountRaw # <<>>

\* the next holding after position `from` that the loop swaps, 0 when none
nextEligible(tokenAccounts, from, cryptoMint) ==
  LET later == {i \in (from + 1)..Len(tokenAccounts) :
                  eligible(tokenAccounts[i], cryptoMint)}
  IN  IF later = {} THEN 0 ELSE CHOOSE i \in later : \A j \in later : i <= j

\* the loop goes on after position `from`: the next doJupiterSwap, or step 4
continueLoop(me, from) ==
  LET nxt == nextEligible(me.tokenAccounts, from, CRYPTOCARDS_MINT(env))
  IN  IF nxt = 0 THEN [me EXCEPT !.pc = "getTokenAccountBalance"]
      ELSE [me EXCEPT !.pc = "quote", !.leg = nxt,
                      !.cur = [inputMint |-> me.tokenAccounts[nxt].mint,
                               amount |-> me.tokenAccounts[nxt].amountRaw,
                               wrapAndUnwrapSol |-> FALSE]]

\* every returned swap pushed, the tests of lines 318 and 351 left out
pushedWhateverReturned(ret) == TRUE

\* whether a returned swap is pushed on swaps, lines 318 and 351
pushed(ret) == ret.ok

\* doJupiterSwap returned `ret`: lines 318-322 for the SOL swap (leg 0), lines
\* 351-355 for a token swap, and what follows
legReturns(me, ret) ==
  LET done == [me EXCEPT
                 !.rets = Append(@, [leg |-> me.leg, inputMint |-> me.cur.inputMint,
                                     ret |-> ret]),
                 !.swaps = IF pushed(ret)
                           THEN Append(@, [inputMint |-> me.cur.inputMint,
                                           amount |-> me.cur.amount,
                                           signature |-> ret.signature])
                           ELSE @]
  IN  IF me.leg = 0 THEN [done EXCEPT !.pc = "getParsedTokenAccountsByOwner", !.scanPos = 1]
      ELSE continueLoop(done, me.leg)

\* a confirmation threw (lines 297-299 and 394-396, which only log it): the call
\* is noted among those whose confirmation could not be verified
confirmed(me, o) ==
  IF o = "ok" THEN me ELSE [me EXCEPT !.unverified = @ \cup {Len(me.calls)}]

LegFailed(step, error) == [ok |-> FALSE, step |-> step, error |-> error, signature |-> 0]
LegOk(sig) == [ok |-> TRUE, step |-> "", error |-> "", signature |-> sig]

\* getAllTokenAccounts, lines 120-136: the items of one program it keeps
RECURSIVE keptAccounts(_, _)
keptAccounts(items, programId) ==
  IF items = <<>> THEN <<>>
  ELSE LET it == Head(items)
           rest == keptAccounts(Tail(items), programId)
       IN  IF ~it.hasInfo THEN rest
           ELSE IF it.mint = "" \/ ~it.hasAmount THEN rest
           ELSE IF it.amount = <<>> THEN rest
           ELSE << [pubkey |-> it.pubkey, mint |-> it.mint, amountRaw |-> it.amount,
                    decimals |-> it.decimals, programId |-> programId] >> \o rest

getAssociatedTokenAddress(mint, owner) ==
  IF mint = "T" /\ owner = "W" THEN "ata(T,W)" ELSE "ata"

(***************************************************************************)
(* POST /run-burn, lines 468-508, and runBurnSwap, lines 187-420.  One     *)
(* action per awaited call: the call, its answer, and the code up to the   *)
(* next await.                                                             *)
(***************************************************************************)
\* a response in brief: its status and error
Response(status, result) == [status |-> status, error |-> result.error]

NoResponse == [status |-> 0, error |-> "none"]

logged(me, op, args) == [me EXCEPT !.calls = Append(@, Call(op, me.leg, args))]

\* a request arrives in a free slot
Arrive(r) ==
  /\ r <= conc
  /\ req[r].pc \in {"idle", "responded"}
  /\ runsLeft > 0
  /\ \E h \in Headers :
       req' = [req EXCEPT ![r] = [IdleReq EXCEPT !.pc = "handler", !.hdr = h]]
  /\ runsLeft' = runsLeft - 1
  /\ UNCHANGED <<env, conc, faults, last, probe>>

\* runBurnSwap up to its first await, lines 188-220
runBurnSwapStart(me) ==
  IF configInvalid(env) THEN Finish(me, Failure("config_invalid"))
  ELSE LET burnKeypair == getBurnWalletKeypair(BURN_WALLET_SECRET(env))
       IN  IF burnKeypair = "" THEN Finish(me, Failure("no_burn_wallet_secret"))
           ELSE IF BURN_WALLET(env) \notin Base58Addresses THEN Finish(me, Exception)
           ELSE IF ~pubkeyEquals(burnKeypair, BURN_WALLET(env))
                THEN Finish(me, Failure("secret_pubkey_mismatch"))
           ELSE IF CRYPTOCARDS_MINT(env) \notin Base58Addresses THEN Finish(me, Exception)
           ELSE [me EXCEPT !.pc = "getBalance"]

\* the handler up to its first await: the auth check, then runBurnSwap's start
Handle(r) ==
  LET me == req[r]
      reject == authReject(me.hdr, BURN_AUTH_TOKEN(env))
  IN  /\ me.pc = "handler"
      /\ IF reject # 0
         THEN /\ req' = [req EXCEPT ![r] =
                   [me EXCEPT !.pc = "responded", !.status = reject,
                              !.result = Failure(IF reject = 500
                                                 THEN "worker_missing_auth_token"
                                                 ELSE "unauthorized")]]
              /\ last' = Response(reject,
                                   Failure(IF reject = 500 THEN "worker_missing_auth_token"
                                           ELSE "unauthorized"))
         ELSE /\ req' = [req EXCEPT ![r] = runBurnSwapStart([me EXCEPT !.ran = TRUE])]
              /\ last' = last
      /\ UNCHANGED <<env, conc, runsLeft, faults, probe>>

\* what follows the threshold gate, were the target balance read before the swaps
afterGateReadsTargetFirst(me) == [me EXCEPT !.pc = "getTokenAccountBalance"]

\* what follows the threshold gate, lines 304-333: the SOL swap or the scan
afterGate(me) ==
  LET amt == swapLamports(me.lamports, FEE_RESERVE_SOL(env), SAFETY_FRACTION(env))
  IN  IF amt > 0
      THEN [me EXCEPT !.pc = "quote", !.leg = 0,
                      !.cur = [inputMint |-> SOL_MINT_ADDRESS, amount |-> BigFromNat(amt),
                               wrapAndUnwrapSol |-> TRUE]]
      ELSE [me EXCEPT !.pc = "getParsedTokenAccountsByOwner", !.scanPos = 1]

\* connection.getBalance and the threshold gate, lines 220-235
GetBalance(r) ==
  LET me == logged(req[r], "getBalance", NoArgs)
  IN  /\ req[r].pc = "getBalance"
      /\ \E o \in Outcomes({"throws"}) :
           /\ Spend(o)
           /\ IF o = "throws" THEN req' = [req EXCEPT ![r] = Finish(me, Exception)]
              ELSE \E lamports \in Balances :
                     req' = [req EXCEPT ![r] =
                       IF belowThreshold(lamports, BURN_THRESHOLD_SOL(env))
                       THEN Finish([me EXCEPT !.lamports = lamports],
                                   Failure("below_threshold"))
                       ELSE afterGate([me EXCEPT !.lamports = lamports])]
      /\ UNCHANGED <<env, conc, runsLeft, last, probe>>

legArgs(me) ==
  [NoArgs EXCEPT !.inputMint = me.cur.inputMint, !.outputMint = CRYPTOCARDS_MINT(env),
                 !.amount = me.cur.amount, !.wrapAndUnwrapSol = me.cur.wrapAndUnwrapSol]

\* the quote answered 200 with a JSON body that is not null and holds no route
\* (an empty object, an error object): line 256 tests only !quoteJson, so the
\* body is taken as the quote; the call is noted
noRoute(me) == [me EXCEPT !.routeless = @ \cup {Len(me.calls)}]

\* the quote request, were a refused quote asked for again
QuoteRetried(r) ==
  LET me == logged(req[r], "quote", legArgs(req[r]))
  IN  /\ req[r].pc = "quote"
      /\ \E o \in Outcomes({"throws", "http_error", "empty_quote", "no_route"}) :
           /\ Spend(o)
           /\ req' = [req EXCEPT ![r] =
                CASE o = "ok" -> [me EXCEPT !.pc = "swap"]
                  [] o = "no_route" -> [noRoute(me) EXCEPT !.pc = "swap"]
                  [] o = "throws" -> Finish(me, Exception)
                  [] o = "http_error" -> me
                  [] o = "empty_quote" -> legReturns(me, LegFailed("quote", "empty_quote"))]
      /\ UNCHANGED <<env, conc, runsLeft, last, probe>>

\* doJupiterSwap: GET {base}/quote, lines 250-256
Quote(r) ==
  LET me == logged(req[r], "quote", legArgs(req[r]))
  IN  /\ req[r].pc = "quote"
      /\ \E o \in Outcomes({"throws", "http_error", "empty_quote", "no_route"}) :
           /\ Spend(o)
           /\ req' = [req EXCEPT ![r] =
                CASE o = "ok" -> [me EXCEPT !.pc = "swap"]
                  [] o = "no_route" -> [noRoute(me) EXCEPT !.pc = "swap"]
                  [] o = "throws" -> Finish(me, Exception)
                  [] o = "http_error" -> legReturns(me, LegFailed("quote", "status"))
                  [] o = "empty_quote" -> legReturns(me, LegFailed("quote", "empty_quote"))]
      /\ UNCHANGED <<env, conc, runsLeft, last, probe>>

\* doJupiterSwap: POST {base}/swap, then deserialize and sign, lines 268-287
Build(r) ==
  LET me == logged(req[r], "swap", legArgs(req[r]))
  IN  /\ req[r].pc = "swap"
      /\ IF Len(req[r].calls) \in req[r].routeless
         THEN \* the aggregator refuses to build from a body that holds no route
              /\ faults' = faults
              /\ req' = [req EXCEPT ![r] = legReturns(me, LegFailed("swap_build", "status"))]
         ELSE \E o \in Outcomes({"throws", "http_error", "missing_swap_transaction",
                                  "malformed_transaction"}) :
                /\ Spend(o)
                /\ req' = [req EXCEPT ![r] =
                     CASE o = "ok" -> [me EXCEPT !.pc = "sendRawTransaction"]
                       [] o = "throws" -> Finish(me, Exception)
                       [] o = "malformed_transaction" -> Finish(me, Exception)
                       [] o = "http_error" -> legReturns(me, LegFailed("swap_build", "status"))
                       [] o = "missing_swap_transaction" ->
                            legReturns(me, LegFailed("swap_build", "missing_swap_transaction"))]
      /\ UNCHANGED <<env, conc, runsLeft, last, probe>>

\* doJupiterSwap: connection.sendRawTransaction, lines 288-293
Send(r) ==
  LET me == logged(req[r], "sendRawTransaction", legArgs(req[r]))
  IN  /\ req[r].pc = "sendRawTransaction"
      /\ \E o \in Outcomes({"send_failed"}) :
           /\ Spend(o)
           /\ req' = [req EXCEPT ![r] =
                IF o = "ok" THEN [me EXCEPT !.pc = "confirmTransaction", !.sig = Len(me.calls)]
                ELSE legReturns(me, LegFailed("send", "send_failed"))]
      /\ UNCHANGED <<env, conc, runsLeft, last, probe>>

\* doJupiterSwap: connection.confirmTransaction, lines 295-301
Confirm(r) ==
  LET me == logged(req[r], "confirmTransaction", legArgs(req[r]))
  IN  /\ req[r].pc = "confirmTransaction"
      /\ \E o \in Outcomes({"confirm_error"}) :
           /\ Spend(o)
           /\ req' = [req EXCEPT ![r] = legReturns(confirmed(me, o), LegOk(me.sig))]
      /\ UNCHANGED <<env, conc, runsLeft, last, probe>>

\* the scan, were a failed enumeration to reach the top-level catch
ScanFailureAborts(r) ==
  LET me == logged(req[r], "getParsedTokenAccountsByOwner",
                   [NoArgs EXCEPT !.inputMint = ProgramIds[req[r].scanPos]])
      goOn(m) == IF m.scanPos = 1 THEN [m EXCEPT !.scanPos = 2] ELSE continueLoop(m, 0)
  IN  /\ req[r].pc = "getParsedTokenAccountsByOwner"
      /\ \E o \in Outcomes({"throws"}) :
           /\ Spend(o)
           /\ IF o = "throws" THEN req' = [req EXCEPT ![r] = Finish(me, Exception)]
              ELSE \E items \in Listings(me.scanPos) :
                     req' = [req EXCEPT ![r] =
                       goOn([me EXCEPT !.tokenAccounts =
                               @ \o keptAccounts(items, ProgramIds[me.scanPos])])]
      /\ UNCHANGED <<env, conc, runsLeft, last, probe>>

\* getAllTokenAccounts: one getParsedTokenAccountsByOwner, lines 117-140
Scan(r) ==
  LET me == logged(req[r], "getParsedTokenAccountsByOwner",
                   [NoArgs EXCEPT !.inputMint = ProgramIds[req[r].scanPos]])
      goOn(m) == IF m.scanPos = 1 THEN [m EXCEPT !.scanPos = 2] ELSE continueLoop(m, 0)
  IN  /\ req[r].pc = "getParsedTokenAccountsByOwner"
      /\ \E o \in Outcomes({"throws"}) :
           /\ Spend(o)
           /\ IF o = "throws" THEN req' = [req EXCEPT ![r] = goOn(me)]
              ELSE \E items \in Listings(me.scanPos) :
                     req' = [req EXCEPT ![r] =
                       goOn([me EXCEPT !.tokenAccounts =
                               @ \o keptAccounts(items, ProgramIds[me.scanPos])])]
      /\ UNCHANGED <<env, conc, runsLeft, last, probe>>

\* step 4 without the test of line 367: a burn is built whatever the balance read
TargetBalanceBurnsAnyBalance(r) ==
  LET me == logged([req[r] EXCEPT !.leg = 0], "getTokenAccountBalance", NoArgs)
      ata == getAssociatedTokenAddress(CRYPTOCARDS_MINT(env), BURN_WALLET(env))
  IN  /\ req[r].pc = "getTokenAccountBalance"
      /\ \E o \in Outcomes({"throws"}) :
           /\ Spend(o)
           /\ IF o = "throws" THEN req' = [req EXCEPT ![r] = FinishOk(me)]
              ELSE \E amountStr \in TargetAmounts :
                     req' = [req EXCEPT ![r] =
                       [me EXCEPT !.pc = "getLatestBlockhash", !.amountRaw = amountStr,
                                  !.burnIx = makeBurnInstruction(
                                     ata, CRYPTOCARDS_MINT(env), BURN_WALLET(env),
                                     amountStr)]]
      /\ UNCHANGED <<env, conc, runsLeft, last, probe>>

\* step 4: connection.getTokenAccountBalance(ata), lines 363-375 and 400-402
TargetBalance(r) ==
  LET me == logged([req[r] EXCEPT !.leg = 0], "getTokenAccountBalance", NoArgs)
      ata == getAssociatedTokenAddress(CRYPTOCARDS_MINT(env), BURN_WALLET(env))
  IN  /\ req[r].pc = "getTokenAccountBalance"
      /\ \E o \in Outcomes({"throws"}) :
           /\ Spend(o)
           /\ IF o = "throws" THEN req' = [req EXCEPT ![r] = FinishOk(me)]
              ELSE \E amountStr \in TargetAmounts :
                     req' = [req EXCEPT ![r] =
                       IF amountStr # <<>>
                       THEN [me EXCEPT !.pc = "getLatestBlockhash", !.amountRaw = amountStr,
                                       !.burnIx = makeBurnInstruction(
                                          ata, CRYPTOCARDS_MINT(env), BURN_WALLET(env),
                                          amountStr)]
                       ELSE FinishOk(me)]
      /\ UNCHANGED <<env, conc, runsLeft, last, probe>>

\* connection.getLatestBlockhash, then the burn transaction is built and signed,
\* lines 377-386
Blockhash(r) ==
  LET me == logged(req[r], "getLatestBlockhash", NoArgs)
  IN  /\ req[r].pc = "getLatestBlockhash"
      /\ \E o \in Outcomes({"throws"}) :
           /\ Spend(o)
           /\ req' = [req EXCEPT ![r] =
                IF o = "ok" THEN [me EXCEPT !.pc = "sendBurn"] ELSE FinishOk(me)]
      /\ UNCHANGED <<env, conc, runsLeft, last, probe>>

\* the burn broadcast, were its exception to reach the top-level catch
BurnSendFailureAborts(r) ==
  LET me == logged(req[r], "sendBurn",
                   [NoArgs EXCEPT !.inputMint = CRYPTOCARDS_MINT(env),
                                  !.amount = req[r].amountRaw,
                                  !.data = req[r].burnIx.data])
  IN  /\ req[r].pc = "sendBurn"
      /\ \E o \in Outcomes({"throws"}) :
           /\ Spend(o)
           /\ req' = [req EXCEPT ![r] =
                IF o = "ok" THEN [me EXCEPT !.pc = "confirmBurn",
                                            !.burnSignature = Len(me.calls)]
                ELSE Finish(me, Exception)]
      /\ UNCHANGED <<env, conc, runsLeft, last, probe>>

\* connection.sendRawTransaction of the burn, line 387
BurnSend(r) ==
  LET me == logged(req[r], "sendBurn",
                   [NoArgs EXCEPT !.inputMint = CRYPTOCARDS_MINT(env),
                                  !.amount = req[r].amountRaw,
                                  !.data = req[r].burnIx.data])
  IN  /\ req[r].pc = "sendBurn"
      /\ \E o \in Outcomes({"throws"}) :
           /\ Spend(o)
           /\ req' = [req EXCEPT ![r] =
                IF o = "ok" THEN [me EXCEPT !.pc = "confirmBurn",
                                            !.burnSignature = Len(me.calls)]
                ELSE FinishOk(me)]
      /\ UNCHANGED <<env, conc, runsLeft, last, probe>>

\* the confirmation of the burn, were the burned amount set only once confirmed
BurnConfirmSetsAmountIfConfirmed(r) ==
  LET me == logged(req[r], "confirmBurn", NoArgs)
  IN  /\ req[r].pc = "confirmBurn"
      /\ \E o \in Outcomes({"confirm_error"}) :
           /\ Spend(o)
           /\ req' = [req EXCEPT ![r] =
                IF o = "ok"
                THEN FinishOk([me EXCEPT !.burnedAmountRaw = me.amountRaw])
                ELSE FinishOk(confirmed(me, o))]
      /\ UNCHANGED <<env, conc, runsLeft, last, probe>>

\* connection.confirmTransaction of the burn, lines 389-399
BurnConfirm(r) ==
  LET me == logged(req[r], "confirmBurn", NoArgs)
  IN  /\ req[r].pc = "confirmBurn"
      /\ \E o \in Outcomes({"confirm_error"}) :
           /\ Spend(o)
           /\ req' = [req EXCEPT ![r] =
                FinishOk([confirmed(me, o) EXCEPT !.burnedAmountRaw = me.amountRaw])]
      /\ UNCHANGED <<env, conc, runsLeft, last, probe>>

\* the status of the response, line 499
statusOf(result) == IF result.ok THEN 200 ELSE 500

\* res.status(status).json(result), lines 498-500
Respond(r) ==
  /\ req[r].pc = "done"
  /\ req' = [req EXCEPT ![r].pc = "responded", ![r].status = statusOf(req[r].result)]
  /\ last' = Response(statusOf(req[r].result), req[r].result)
  /\ UNCHANGED <<env, conc, runsLeft, faults, probe>>

Envs ==
  { DefaultEnv,
    [DefaultEnv EXCEPT !.BURN_WALLET_SECRET = Secret("key", "X")],
    [DefaultEnv EXCEPT !.BURN_WALLET_SECRET = Secret("unset", "")],
    [DefaultEnv EXCEPT !.BURN_WALLET_SECRET = Secret("notjson", "")],
    [DefaultEnv EXCEPT !.BURN_WALLET_SECRET = Secret("notarray", "")],
    [DefaultEnv EXCEPT !.BURN_WALLET_SECRET = Secret("badkey", "")],
    [DefaultEnv EXCEPT !.BURN_WALLET = ""],
    [DefaultEnv EXCEPT !.BURN_WALLET = "0OIl"],
    [DefaultEnv EXCEPT !.CRYPTOCARDS_MINT = ""],
    [DefaultEnv EXCEPT !.CRYPTOCARDS_MINT = "0OIl"],
    [DefaultEnv EXCEPT !.BURN_THRESHOLD_SOL = NotANumber],
    [DefaultEnv EXCEPT !.BURN_THRESHOLD_SOL = Dec(0, 1)],
    [DefaultEnv EXCEPT !.BURN_AUTH_TOKEN = <<" ">>],
    [DefaultEnv EXCEPT !.BURN_FEE_RESERVE_SOL = Dec(1, 1)],
    [DefaultEnv EXCEPT !.BURN_SAFETY_FRACTION = Dec(15, 10)] }

Init ==
  /\ env \in Envs
  /\ conc = 1
  /\ runsLeft = MaxRuns
  /\ faults = MaxFaults
  /\ req = [r \in Slots |-> IdleReq]
  /\ last = NoResponse
  /\ probe = NoProbe

Next ==
  \E r \in Slots :
    \/ Arrive(r)
    \/ Handle(r)
    \/ GetBalance(r)
    \/ Quote(r)
    \/ Build(r)
    \/ Send(r)
    \/ Confirm(r)
    \/ Scan(r)
    \/ TargetBalance(r)
    \/ Blockhash(r)
    \/ BurnSend(r)
    \/ BurnConfirm(r)
    \/ Respond(r)

Spec == Init /\ [][Next]_vars

(***************************************************************************)
(* Two requests in flight at once: express runs each handler up to its     *)
(* next await, so the awaited calls of two requests interleave.            *)
(***************************************************************************)
InitConc ==
  /\ env = DefaultEnv
  /\ conc = NumSlots
  /\ runsLeft = NumSlots
  /\ faults = 0
  /\ req = [r \in Slots |-> IdleReq]
  /\ last = NoResponse
  /\ probe = NoProbe

ConcSpec == InitConc /\ [][Next]_vars

(***************************************************************************)
(* The two pure computations on their own: the spend arithmetic of lines   *)
(* 307-309 and the burn instruction of lines 93-105, applied to inputs     *)
(* drawn from bounded sets.                                                *)
(***************************************************************************)
(***************************************************************************)
(* One authorized run on the default configuration in which several calls  *)
(* may fail: the native leg, a token leg and the burn can all fail in the  *)
(* same run.                                                               *)
(***************************************************************************)
\* failures the ledger and the aggregator may answer with in that run
MaxLegFaults == 3

InitFaulty ==
  /\ env = DefaultEnv
  /\ conc = 1
  /\ runsLeft = 1
  /\ faults = MaxLegFaults
  /\ req = [r \in Slots |-> IdleReq]
  /\ last = NoResponse
  /\ probe = NoProbe

FaultySpec == InitFaulty /\ [][Next]_vars

SpendBalances ==
  {0, 1, 100, 10000000, 19999999, 20000000, 20000001, 990000000, 1000000000}
SpendReserves == {Dec(0, 1), Dec(1, 100), Dec(2, 100), Dec(1, 1)}
SpendFractions == {Dec(85, 100), Dec(57, 100), Dec(1, 1), Dec(1, 2), Dec(15, 10)}
BurnAmounts ==
  { BigNorm(<<a, b, c, d, t>>) : a \in {0, 1234, 255, 256, 32767}, b \in {0, 1, 32767},
                                 c \in {0, 32767}, d \in {0, 32767}, t \in {0, 15} }

InitPure ==
  /\ env = DefaultEnv
  /\ conc = 0
  /\ runsLeft = 0
  /\ faults = 0
  /\ req = [r \in Slots |-> IdleReq]
  /\ last = NoResponse
  /\ \/ \E b \in SpendBalances, r \in SpendReserves, f \in SpendFractions :
          probe = [fn |-> "swapLamports", lamports |-> b, reserve |-> r, fraction |-> f,
                   done |-> FALSE, out |-> 0]
     \/ \E a \in BurnAmounts :
          probe = [fn |-> "makeBurnInstruction", amountRaw |-> a, done |-> FALSE,
                   out |-> NoIx]

\* lines 307-309 on the drawn balance, reserve and fraction
ComputeSpend ==
  /\ probe.fn = "swapLamports"
  /\ ~probe.done
  /\ probe' = [probe EXCEPT !.done = TRUE,
                 !.out = swapLamports(probe.lamports, NumberOf(probe.reserve),
                                      NumberOf(probe.fraction))]
  /\ UNCHANGED <<env, conc, runsLeft, faults, req, last>>

\* makeBurnInstruction on the drawn amount
EncodeBurn ==
  /\ probe.fn = "makeBurnInstruction"
  /\ ~probe.done
  /\ probe' = [probe EXCEPT !.done = TRUE,
                 !.out = makeBurnInstruction("ata(T,W)", "T", "W", probe.amountRaw)]
  /\ UNCHANGED <<env, conc, runsLeft, faults, req, last>>

NextPure == ComputeSpend \/ EncodeBurn

PureSpec == InitPure /\ [][NextPure]_vars

(***************************************************************************)
(* The v6 variant of the worker, src/unnamed/part_001: one handler,        *)
(* POST /run-burn behind requireAuth, that swaps the balance less a fixed  *)
(* reserve, or an amount the request body names.  Its configuration is in  *)
(* env, its handler in probe, its requests and failures are counted by     *)
(* runsLeft and faults.                                                    *)
(***************************************************************************)
\* a - b for naturals a >= b
RECURSIVE BigSubB(_, _, _)
BigSubB(a, b, borrow) ==
  IF a = <<>> THEN <<>>
  ELSE LET y == IF b = <<>> THEN 0 ELSE Head(b)
           t == Head(a) - y - borrow
       IN  <<IF t < 0 THEN t + Base ELSE t>>
             \o BigSubB(Tail(a), IF b = <<>> THEN <<>> ELSE Tail(b),
                        IF t < 0 THEN 1 ELSE 0)

BigSub(a, b) == BigNorm(BigSubB(a, b, 0))

\* the same double with the least exponent
RECURSIVE DoubleNorm(_)
DoubleNorm(a) ==
  IF a.m = <<>> THEN [m |-> <<>>, e |-> 0]
  ELSE IF a.e > 0 /\ BigTestBit(a.m, 0) = 0
       THEN DoubleNorm([m |-> BigShr(a.m, 1), e |-> a.e - 1])
  ELSE a

\* x - d for a natural x and a double d (the JS operator -), as a sign and a
\* magnitude: the exact difference, rounded once
JSSub(x, d) ==
  LET big == BigShl(BigFromNat(x), d.e)
  IN  IF BigLess(big, d.m)
      THEN [neg |-> TRUE, v |-> DoubleNorm(RoundToDouble(BigSub(d.m, big), d.e))]
      ELSE [neg |-> FALSE, v |-> DoubleNorm(RoundToDouble(BigSub(big, d.m), d.e))]

\* line 137: const MIN_SOL_REMAIN = 0.002
MIN_SOL_REMAIN == Dec(2, 1000)

\* line 138
reservedLamports == JSMul(LAMPORTS_PER_SOL, NumberOf(MIN_SOL_REMAIN))

\* lines 120 and 126: balanceSol < THRESHOLD_SOL
v6BelowThreshold(balanceLamports, THRESHOLD_SOL) ==
  JSLess(JSDiv(balanceLamports, LAMPORTS_PER_SOL), THRESHOLD_SOL)

\* line 24: parseFloat(process.env.THRESHOLD_SOL || "0.02")
THRESHOLD_SOL(e) == NumberOf(e.THRESHOLD_SOL)

(***************************************************************************)
(* Request bodies.  amountLamports is absent, a JSON string, or a JSON     *)
(* number: a sign and a decimal literal, or a literal too large for a      *)
(* double (1e999), which JSON.parse reads as Infinity.                     *)
(***************************************************************************)
NoBody == [present |-> FALSE, type |-> "undefined", neg |-> FALSE, inf |-> FALSE,
           lit |-> Dec(0, 1)]

Body(type, neg, inf, lit) ==
  [present |-> TRUE, type |-> type, neg |-> neg, inf |-> inf, lit |-> lit]

JsonNumber(neg, lit) == Body("number", neg, FALSE, lit)

V6Bodies ==
  { NoBody,
    Body("undefined", FALSE, FALSE, Dec(0, 1)),
    Body("string", FALSE, FALSE, Dec(5000000, 1)),
    Body("number", FALSE, TRUE, Dec(0, 1)),
    JsonNumber(TRUE, Dec(1, 1)),
    JsonNumber(FALSE, Dec(0, 1)),
    JsonNumber(FALSE, Dec(1, 2)),
    JsonNumber(FALSE, Dec(1, 1)),
    JsonNumber(FALSE, Dec(5000000, 1)),
    JsonNumber(FALSE, Dec(50000007, 10)),
    JsonNumber(FALSE, Dec(18000000, 1)),
    JsonNumber(FALSE, Dec(2000000000, 1)) }

\* the test of lines 152-157: a number above 0 and below the computed amount
overrides(body, computed) ==
  /\ body.present
  /\ body.type = "number"
  /\ ~body.neg
  /\ ~body.inf
  /\ ~JSIsZero(NumberOf(body.lit))
  /\ JSLess(NumberOf(body.lit), computed)

\* lines 152-162: the amount of the swap, given the amount computed at line 139
v6Override(body, computed) ==
  IF overrides(body, computed)
  THEN [m |-> BigShr(NumberOf(body.lit).m, NumberOf(body.lit).e), e |-> 0]
  ELSE computed

V6Balances == {1000000, 2000000, 2000001, 19999999, 20000000, 1000000000}

V6Headers == {NoHeader, Header(<<"s", "3">>), Header(<<"x">>)}

V6Envs ==
  { [THRESHOLD_SOL |-> Dec(2, 100), BURN_AUTH_TOKEN |-> <<"s", "3">>],
    [THRESHOLD_SOL |-> Dec(1, 1000), BURN_AUTH_TOKEN |-> <<"s", "3">>] }

V6Idle ==
  [fn |-> "v6", pc |-> "idle", hdr |-> NoHeader, body |-> NoBody,
   balanceLamports |-> 0 - 1, computed |-> NaN, swapLamports |-> NaN,
   calls |-> <<>>, status |-> 0, ok |-> FALSE, error |-> ""]

\* res.status(status).json({ ok, error or reason })
v6Responds(me, status, ok, error) ==
  [me EXCEPT !.pc = "responded", !.status = status, !.ok = ok, !.error = error]

\* the catch of lines 270-280
v6Throws(me) == v6Responds(me, 500, FALSE, "exception")

v6Logged(me, op) ==
  [me EXCEPT !.calls = Append(@, [op |-> op, amount |-> me.swapLamports])]

V6Arrive ==
  /\ probe.pc \in {"idle", "responded"}
  /\ runsLeft > 0
  /\ \E h \in V6Headers, b \in V6Bodies :
       probe' = [V6Idle EXCEPT !.pc = "requireAuth", !.hdr = h, !.body = b]
  /\ runsLeft' = runsLeft - 1
  /\ UNCHANGED <<env, conc, faults, req, last>>

\* requireAuth, lines 76-86
V6RequireAuth ==
  /\ probe.pc = "requireAuth"
  /\ probe' = IF ~probe.hdr.present \/ probe.hdr.value = <<>>
                 \/ probe.hdr.value # env.BURN_AUTH_TOKEN
              THEN v6Responds(probe, 401, FALSE, "unauthorized")
              ELSE [probe EXCEPT !.pc = "getBalance"]
  /\ UNCHANGED <<env, conc, runsLeft, faults, req, last>>

\* connection.getBalance, the gate, the reserve and the override, lines 119-162;
\* line 141 tests swapLamports <= 0
V6GetBalance ==
  LET me == v6Logged(probe, "getBalance")
  IN  /\ probe.pc = "getBalance"
      /\ \E o \in Outcomes({"throws"}) :
           /\ Spend(o)
           /\ IF o = "throws" THEN probe' = v6Throws(me)
              ELSE \E balanceLamports \in V6Balances :
                     LET got == [me EXCEPT !.balanceLamports = balanceLamports]
                         left == JSSub(balanceLamports, reservedLamports)
                     IN  probe' =
                           IF v6BelowThreshold(balanceLamports, THRESHOLD_SOL(env))
                           THEN v6Responds(got, 200, FALSE, "below_threshold")
                           ELSE IF left.neg \/ JSIsZero(left.v)
                           THEN v6Responds(got, 200, FALSE, "not_enough_after_reserve")
                           ELSE [got EXCEPT !.pc = "quote", !.computed = left.v,
                                            !.swapLamports = v6Override(me.body, left.v)]
      /\ UNCHANGED <<env, conc, runsLeft, req, last>>

\* axios.get {base}/v6/quote, lines 171-188
V6Quote ==
  LET me == v6Logged(probe, "quote")
  IN  /\ probe.pc = "quote"
      /\ \E o \in Outcomes({"throws", "no_route"}) :
           /\ Spend(o)
           /\ probe' = CASE o = "ok" -> [me EXCEPT !.pc = "swap"]
                         [] o = "throws" -> v6Throws(me)
                         [] o = "no_route" -> v6Responds(me, 500, FALSE, "no_route")
      /\ UNCHANGED <<env, conc, runsLeft, req, last>>

\* axios.post {base}/v6/swap and the deserialising, lines 194-215
V6Build ==
  LET me == v6Logged(probe, "swap")
  IN  /\ probe.pc = "swap"
      /\ \E o \in Outcomes({"throws", "missing_swap_transaction"}) :
           /\ Spend(o)
           /\ probe' = CASE o = "ok" -> [me EXCEPT !.pc = "getLatestBlockhashAndContext"]
                         [] o = "throws" -> v6Throws(me)
                         [] o = "missing_swap_transaction" ->
                              v6Responds(me, 500, FALSE, "no_swap_transaction")
      /\ UNCHANGED <<env, conc, runsLeft, req, last>>

\* connection.getLatestBlockhashAndContext and the signing, lines 217-222
V6Blockhash ==
  LET me == v6Logged(probe, "getLatestBlockhashAndContext")
  IN  /\ probe.pc = "getLatestBlockhashAndContext"
      /\ \E o \in Outcomes({"throws"}) :
           /\ Spend(o)
           /\ probe' = IF o = "ok" THEN [me EXCEPT !.pc = "simulateTransaction"]
                       ELSE v6Throws(me)
      /\ UNCHANGED <<env, conc, runsLeft, req, last>>

\* connection.simulateTransaction, lines 225-240
V6Simulate ==
  LET me == v6Logged(probe, "simulateTransaction")
  IN  /\ probe.pc = "simulateTransaction"
      /\ \E o \in Outcomes({"throws", "simulation_failed"}) :
           /\ Spend(o)
           /\ probe' = CASE o = "ok" -> [me EXCEPT !.pc = "sendTransaction"]
                         [] o = "throws" -> v6Throws(me)
                         [] o = "simulation_failed" ->
                              v6Responds(me, 500, FALSE, "simulation_failed")
      /\ UNCHANGED <<env, conc, runsLeft, req, last>>

\* connection.sendTransaction, lines 243-246
V6Send ==
  LET me == v6Logged(probe, "sendTransaction")
  IN  /\ probe.pc = "sendTransaction"
      /\ \E o \in Outcomes({"throws"}) :
           /\ Spend(o)
           /\ probe' = IF o = "ok" THEN [me EXCEPT !.pc = "confirmTransaction"]
                       ELSE v6Throws(me)
      /\ UNCHANGED <<env, conc, runsLeft, req, last>>

\* connection.confirmTransaction and the response, lines 250-269
V6Confirm ==
  LET me == v6Logged(probe, "confirmTransaction")
  IN  /\ probe.pc = "confirmTransaction"
      /\ \E o \in Outcomes({"throws"}) :
           /\ Spend(o)
           /\ probe' = IF o = "ok" THEN v6Responds(me, 200, TRUE, "")
                       ELSE v6Throws(me)
      /\ UNCHANGED <<env, conc, runsLeft, req, last>>

InitV6 ==
  /\ env \in V6Envs
  /\ conc = 1
  /\ runsLeft = MaxRuns
  /\ faults = MaxFaults
  /\ req = [r \in Slots |-> IdleReq]
  /\ last = NoResponse
  /\ probe = V6Idle

NextV6 ==
  \/ V6Arrive
  \/ V6RequireAuth
  \/ V6GetBalance
  \/ V6Quote
  \/ V6Build
  \/ V6Blockhash
  \/ V6Simulate
  \/ V6Send
  \/ V6Confirm

V6Spec == InitV6 /\ [][NextV6]_vars

(***************************************************************************)
(* Properties.                                                             *)
(***************************************************************************)
\* lamports / 1e9 < num / scale over the rationals
ExactlyBelow(lamports, dec) ==
  BigLess(BigMulSmall(BigFromNat(lamports), dec.scale),
          BigMulSmall(BigFromNat(LAMPORTS_PER_SOL), dec.num))

OpsOf(calls) == [i \in 1..Len(calls) |-> calls[i].op]

\* C1: a run whose balance read is below the configured threshold is finished
\* with the below_threshold result having made one network call, the balance
\* read, and nothing else; every response that reports below_threshold carries
\* the same status.
C1_BelowThresholdIsNoOp ==
  /\ \A r \in Slots :
       LET me == req[r]
       IN  (me.lamports >= 0 /\ ExactlyBelow(me.lamports, env.BURN_THRESHOLD_SOL))
             => /\ me.pc \in {"done", "responded"}
                /\ me.result = Failure("below_threshold")
                /\ OpsOf(me.calls) = <<"getBalance">>
  /\ last.error = "below_threshold" => last.status = 500

\* two consecutive runs both found the balance below the threshold
C1_Witness ==
  /\ last = [status |-> 500, error |-> "below_threshold"]
  /\ runsLeft = MaxRuns - 2
  /\ req[1].pc = "done"
  /\ req[1].lamports = 19999999
  /\ req[1].result.error = "below_threshold"
  /\ OpsOf(req[1].calls) = <<"getBalance">>


\* the secret is a key, and the address derived from it is not the configured
\* wallet address
KeyMismatch ==
  /\ env.BURN_WALLET_SECRET.kind = "key"
  /\ env.BURN_WALLET_SECRET.pub # env.BURN_WALLET

\* C2: with a signing key whose address differs from the configured wallet
\* address, no request ever makes a network call (no balance read, quote, build,
\* broadcast or burn), and a run of runBurnSwap on an otherwise valid
\* configuration ends with the secret_pubkey_mismatch failure.
C2_KeyMismatchIsFatal ==
  KeyMismatch =>
    \A r \in Slots :
      /\ req[r].calls = <<>>
      /\ req[r].pc \notin {"getBalance", "quote", "swap", "sendRawTransaction",
                           "confirmTransaction", "getParsedTokenAccountsByOwner",
                           "getTokenAccountBalance", "getLatestBlockhash",
                           "sendBurn", "confirmBurn"}
      /\ (/\ req[r].pc = "done"
          /\ env.BURN_WALLET \in Base58Addresses
          /\ env.CRYPTOCARDS_MINT # ""
          /\ env.BURN_THRESHOLD_SOL \notin {NotANumber, Dec(0, 1)})
           => req[r].result = Failure("secret_pubkey_mismatch")

\* an authorized request ran runBurnSwap with a mismatched key and was answered
C2_Witness ==
  /\ KeyMismatch
  /\ req[1].pc = "responded"
  /\ req[1].status = 500
  /\ req[1].result.error = "secret_pubkey_mismatch"


Finished(me) == me.pc \in {"done", "responded"} /\ me.ran

HasCall(me, op) == \E i \in 1..Len(me.calls) : me.calls[i].op = op

\* both enumerations of the scan were made
Scanned(me) ==
  Cardinality({i \in 1..Len(me.calls) :
                 me.calls[i].op = "getParsedTokenAccountsByOwner"}) = 2

\* a quote was requested for the holding at position i of the scan
LegAttempted(me, i) ==
  \E k \in 1..Len(me.calls) :
    /\ me.calls[k].op = "quote"
    /\ me.calls[k].leg = i
    /\ me.calls[k].inputMint = me.tokenAccounts[i].mint

\* C3: in a run that is over and has scanned the wallet, every scanned holding
\* whose mint is neither the native pseudo-mint nor the target mint had a swap
\* leg attempted, whatever happened to the legs of the other holdings.
C3_EveryHoldingAttempted ==
  \A r \in Slots :
    (Finished(req[r]) /\ Scanned(req[r]))
      => \A i \in 1..Len(req[r].tokenAccounts) :
           req[r].tokenAccounts[i].mint \notin {SOL_MINT_ADDRESS, env.CRYPTOCARDS_MINT}
             => LegAttempted(req[r], i)

\* no call of a token leg was made
NoTokenLeg(me) == \A k \in 1..Len(me.calls) : me.calls[k].leg = 0

\* C4: a run that attempted the native-coin swap and is over has gone on to the
\* token scan and, when no token leg intervened, to the read of the target
\* balance, whichever step of the native leg failed.
C4_NativeLegFailureDoesNotAbort ==
  \A r \in Slots :
    (Finished(req[r]) /\ HasCall(req[r], "quote") /\ req[r].calls[2].leg = 0)
      => /\ Scanned(req[r])
         /\ NoTokenLeg(req[r]) => HasCall(req[r], "getTokenAccountBalance")

\* the swap legs the run attempted: the positions it requested a quote for
LegsAttempted(me) ==
  {me.calls[k].leg : k \in {j \in 1..Len(me.calls) : me.calls[j].op = "quote"}}

\* C5: the swaps list of a returned run result has one entry per attempted swap
\* leg, failed legs included.
C5_OneEntryPerAttemptedLeg ==
  \A r \in Slots :
    LET me == req[r]
    IN  (Finished(me) /\ me.result.ok)
          => Len(me.result.swaps) = Cardinality(LegsAttempted(me))


\* the run of slot r has passed the threshold gate and has not finished
PastGate(me) ==
  me.pc \in {"quote", "swap", "sendRawTransaction", "confirmTransaction",
             "getParsedTokenAccountsByOwner", "getTokenAccountBalance",
             "getLatestBlockhash", "sendBurn", "confirmBurn"}

\* C6: runs against the wallet are serialized: no two requests are both past
\* the threshold gate and not yet finished.
C6_RunsSerialized ==
  \A r1, r2 \in Slots : r1 # r2 => ~(PastGate(req[r1]) /\ PastGate(req[r2]))


\* the header is present and, surrounding white space aside, is the configured
\* secret, which is not empty
TrimmedMatch(hdr) ==
  /\ hdr.present
  /\ Trim(env.BURN_AUTH_TOKEN) # <<>>
  /\ Trim(hdr.value) = Trim(env.BURN_AUTH_TOKEN)

\* the header is character for character the configured secret, as set in the
\* environment or as the worker keeps it
ExactMatch(hdr) ==
  /\ hdr.present
  /\ hdr.value \in {env.BURN_AUTH_TOKEN, BURN_AUTH_TOKEN(env)}

Handled(me) == me.pc \notin {"idle", "handler"}

\* C7 as amended: runBurnSwap is called only for a request whose x-burn-auth
\* header equals the configured secret after both are trimmed of surrounding
\* white space; any other request is answered 401 unauthorized, or 500
\* worker_missing_auth_token when no secret is configured, without a network
\* call.
C7_TrimmedMatchOnly ==
  \A r \in Slots :
    LET me == req[r]
    IN  Handled(me) =>
          IF TrimmedMatch(me.hdr) THEN me.ran
          ELSE /\ ~me.ran
               /\ me.pc = "responded"
               /\ me.calls = <<>>
               /\ me.status = IF Trim(env.BURN_AUTH_TOKEN) = <<>> THEN 500 ELSE 401
               /\ me.result.error = IF Trim(env.BURN_AUTH_TOKEN) = <<>>
                                    THEN "worker_missing_auth_token" ELSE "unauthorized"

\* a header that differs from the secret by a trailing U+00A0 started a run, and
\* the run read the balance
C7_Witness ==
  /\ req[1].hdr = Header(<<"s", "3", "nbsp">>)
  /\ req[1].ran
  /\ req[1].calls # <<>>
  /\ last.error = "unauthorized"

\* C7 as stated: runBurnSwap is called only for a request whose x-burn-auth
\* header is exactly the configured secret, and a request whose header is absent
\* or different is refused (unauthorized, or for want of a configured secret)
\* without a network call.
C7_ExactMatchOnly ==
  \A r \in Slots :
    LET me == req[r]
    IN  Handled(me) =>
          IF ExactMatch(me.hdr) THEN TRUE
          ELSE /\ ~me.ran
               /\ me.calls = <<>>
               /\ me.pc = "responded"
               /\ me.result.error \in {"unauthorized", "worker_missing_auth_token"}


\* the bytes read as a little-endian unsigned integer
RECURSIVE DecodeLE(_)
DecodeLE(bytes) ==
  IF bytes = <<>> THEN <<>>
  ELSE BigAdd(BigFromNat(Head(bytes)), BigMulSmall(DecodeLE(Tail(bytes)), 256))

\* C8: the data of the instruction makeBurnInstruction builds for an amount of
\* 0..2^64-1 is 9 bytes, the burn tag 8 followed by 8 bytes that read as a
\* little-endian unsigned integer give the amount back; the accounts are the
\* token account and the mint, writable, and the owner, signer.
C8_BurnEncodingRoundTrips ==
  (probe.fn = "makeBurnInstruction" /\ probe.done) =>
    LET data == probe.out.data
    IN  /\ Len(data) = 9
        /\ data[1] = 8
        /\ \A i \in 2..9 : data[i] \in 0..255
        /\ DecodeLE(SubSeq(data, 2, 9)) = probe.amountRaw
        /\ [i \in 1..3 |-> probe.out.keys[i].isSigner] = <<FALSE, FALSE, TRUE>>

\* the amount 1234 = 4 * 256 + 210 was encoded
C8_Witness ==
  /\ probe.fn = "makeBurnInstruction"
  /\ probe.done
  /\ probe.amountRaw = BigFromNat(1234)
  /\ probe.out.data = <<8, 210, 4, 0, 0, 0, 0, 0, 0>>


\* C9: the amount put into the native-coin quote request is at least 0 and at
\* most the balance read at the start of the run, no balance that is smaller
\* gives a larger amount, and no reserve that is larger gives a larger amount.
C9_SpendWithinBalanceAndMonotone ==
  \A r \in Slots :
    LET me == req[r]
        amt == BigToNat(me.cur.amount)
    IN  (me.pc = "quote" /\ me.leg = 0) =>
          /\ amt >= 0
          /\ amt <= me.lamports
          /\ \A b \in Balances :
               b <= me.lamports
                 => swapLamports(b, FEE_RESERVE_SOL(env), SAFETY_FRACTION(env)) <= amt
          /\ \A rsv \in SpendReserves :
               feeReserveLamports(NumberOf(rsv)) >= feeReserveLamports(FEE_RESERVE_SOL(env))
                 => swapLamports(me.lamports, NumberOf(rsv), SAFETY_FRACTION(env)) <= amt

\* num / scale of a SOL amount in lamports, for the scales that divide 10^9
ExactLamports(dec) == (LAMPORTS_PER_SOL \div dec.scale) * dec.num

\* floor(x * num / scale) over the integers
ExactFloorMul(x, dec) ==
  (x \div dec.scale) * dec.num + ((x % dec.scale) * dec.num) \div dec.scale

\* C10: the native-coin spend amount is floor(max(0, balance - reserve) *
\* safetyFraction) for every balance, reserve and fraction drawn.
C10_SpendIsFloorOfProduct ==
  (probe.fn = "swapLamports" /\ probe.done) =>
    probe.out = ExactFloorMul(MaxNat(0, probe.lamports - ExactLamports(probe.reserve)),
                              probe.fraction)


\* the balance read passed the threshold gate
PassedGate(me) ==
  me.lamports >= 0 /\ ~ExactlyBelow(me.lamports, env.BURN_THRESHOLD_SOL)

\* the last call the run made, "" when it made none
LastOp(me) == IF me.calls = <<>> THEN "" ELSE me.calls[Len(me.calls)].op

\* the leg at position i returned a failure
LegFailedAt(me, i) == \E k \in 1..Len(me.rets) : me.rets[k].leg = i /\ ~me.rets[k].ret.ok

\* C11: a run that is over and got as far as the burn stage returned ok = true,
\* whatever became of its legs and of the burn; a run that is over, passed the
\* threshold gate and returned ok = false returned the result of the top-level
\* catch, and its last call was a request to the aggregator, the only calls
\* whose exceptions nothing catches before the top level.
C11_OkMeansNoEscapedException ==
  \A r \in Slots :
    LET me == req[r]
    IN  (Finished(me) /\ PassedGate(me))
          => /\ HasCall(me, "getTokenAccountBalance") => me.result.ok
             /\ ~me.result.ok => /\ me.result = Exception
                                 /\ LastOp(me) \in {"quote", "swap"}
             /\ me.result.ok => me.result.error = ""

\* the native leg failed, a token leg was attempted, every attempted token leg
\* failed, the burn was submitted and failed, and the run returned ok = true
C11_Witness ==
  LET me == req[1]
  IN  /\ me.pc = "responded"
      /\ me.status = 200
      /\ me.result.ok
      /\ me.result.swaps = <<>>
      /\ me.result.burnSignature = 0
      /\ LegFailedAt(me, 0)
      /\ \E i \in 1..Len(me.tokenAccounts) : LegFailedAt(me, i)
      /\ LastOp(me) = "sendBurn"


\* the read of the target balance has been answered
BalanceRead(me) == HasCall(me, "getTokenAccountBalance")

\* the calls of the run with the given name
CallsOf(me, op) == {k \in 1..Len(me.calls) : me.calls[k].op = op}

\* C12 as stated: in a run that is over and has read the target balance, the
\* burn was broadcast if and only if the balance read was positive; after a
\* zero or failed read no blockhash was fetched and the result says
\* burnSignature = null and burnedAmountRaw = '0'; the amount of a submitted
\* burn is the balance read.
C12_BurnIffPositiveBalance ==
  \A r \in Slots :
    LET me == req[r]
    IN  (Finished(me) /\ BalanceRead(me))
          => /\ HasCall(me, "sendBurn") <=> me.amountRaw # <<>>
             /\ me.amountRaw = <<>>
                  => /\ ~HasCall(me, "getLatestBlockhash")
                     /\ me.result.burnSignature = 0
                     /\ me.result.burnedAmountRaw = <<>>
             /\ \A k \in CallsOf(me, "sendBurn") : me.calls[k].amount = me.amountRaw

\* C12 amended: once the target balance is read, a zero or failed read ends the
\* run with no blockhash fetched, nothing broadcast, burnSignature = null and
\* burnedAmountRaw = '0'; a positive read is followed by the blockhash fetch;
\* a burn is broadcast only after a positive read and a fetched blockhash, for
\* the amount read, encoded in its instruction; and a run that is over after a
\* positive read without a broadcast ended at the blockhash fetch.
C12_BurnOnlyOnPositiveBalance ==
  \A r \in Slots :
    LET me == req[r]
    IN  BalanceRead(me)
          => /\ me.amountRaw = <<>>
                  => /\ Finished(me)
                     /\ ~HasCall(me, "getLatestBlockhash")
                     /\ ~HasCall(me, "sendBurn")
                     /\ me.result.ok
                     /\ me.result.burnSignature = 0
                     /\ me.result.burnedAmountRaw = <<>>
             /\ me.amountRaw # <<>>
                  => \/ me.pc = "getLatestBlockhash"
                     \/ HasCall(me, "getLatestBlockhash")
             /\ \A k \in CallsOf(me, "sendBurn") :
                  /\ me.amountRaw # <<>>
                  /\ me.calls[k].amount = me.amountRaw
                  /\ Len(me.calls[k].data) = 9
                  /\ me.calls[k].data[1] = 8
                  /\ DecodeLE(SubSeq(me.calls[k].data, 2, 9)) = me.amountRaw
                  /\ me.calls[k - 1].op = "getLatestBlockhash"
                  /\ me.calls[k - 2].op = "getTokenAccountBalance"
             /\ (Finished(me) /\ me.amountRaw # <<>> /\ ~HasCall(me, "sendBurn"))
                  => LastOp(me) = "getLatestBlockhash"
             /\ Cardinality(CallsOf(me, "sendBurn")) <= 1

\* the second run of the process read the balance 1234, broadcast a burn of
\* 1234 and returned its signature
C12_Witness ==
  /\ last.status = 200
  /\ runsLeft = 0
  /\ LET me == req[1]
     IN  /\ me.pc = "done"
         /\ me.amountRaw = <<1234>>
         /\ \E k \in CallsOf(me, "sendBurn") : me.calls[k].amount = <<1234>>
         /\ me.result.burnSignature # 0


\* the swaps that went through, read off the calls: one per confirmation awaited,
\* in order, with the mint and amount of the leg and the signature its broadcast
\* returned
RECURSIVE SwapsBroadcast(_, _)
SwapsBroadcast(calls, k) ==
  IF k = 0 THEN <<>>
  ELSE IF calls[k].op = "confirmTransaction"
       THEN Append(SwapsBroadcast(calls, k - 1),
                   [inputMint |-> calls[k].inputMint, amount |-> calls[k].amount,
                    signature |-> k - 1])
       ELSE SwapsBroadcast(calls, k - 1)

\* the broadcast of the burn was the last call of the run and it failed
BurnSubmitFailed(me) ==
  /\ Finished(me)
  /\ LastOp(me) = "sendBurn"
  /\ me.burnSignature = 0

\* C13: a run whose burn broadcast failed returned ok = true, with a swaps list
\* that holds exactly the swap legs that had gone through before the burn
\* stage, in order, and with no burn signature and a burned amount of '0'.
C13_BurnFailureKeepsSwaps ==
  \A r \in Slots :
    LET me == req[r]
    IN  BurnSubmitFailed(me)
          => /\ me.result.ok
             /\ me.result.swaps = SwapsBroadcast(me.calls, Len(me.calls))
             /\ me.result.burnSignature = 0
             /\ me.result.burnedAmountRaw = <<>>

\* the native leg failed, a token leg went through, the burn broadcast failed,
\* and the run was answered 200 with the one swap
C13_Witness ==
  LET me == req[1]
  IN  /\ BurnSubmitFailed(me)
      /\ me.pc = "responded"
      /\ me.status = 200
      /\ LegFailedAt(me, 0)
      /\ Len(me.result.swaps) = 1
      /\ me.result.swaps[1].inputMint = "A"


\* C14: a run that ended below the threshold is not answered as a failure: every
\* response with an HTTP failure status (400 and above) is the response to a
\* run that ended with a fatal error, never to a below_threshold result.
C14_BelowThresholdIsNotAFailure ==
  \A r \in Slots :
    LET me == req[r]
    IN  (me.pc = "responded" /\ me.ran /\ me.status >= 400)
          => me.result.error # "below_threshold"


\* the entry of swaps that stands for a confirmed swap broadcast by call k
ConfirmedEntry(me, k) ==
  [inputMint |-> me.calls[k].inputMint, amount |-> me.calls[k].amount, signature |-> k]

\* C15: in the result of a run that is over, a swap whose broadcast went through
\* and whose confirmation could not be verified is not recorded the way a
\* confirmed swap is, and a burn whose confirmation could not be verified is
\* not reported the way a confirmed burn is (its signature and the full amount
\* as burned).
C15_UnverifiedConfirmationIsMarked ==
  \A r \in Slots :
    LET me == req[r]
    IN  Finished(me)
          => \A c \in me.unverified :
               /\ me.calls[c].op = "confirmTransaction"
                    => \A i \in 1..Len(me.result.swaps) :
                         me.result.swaps[i] # ConfirmedEntry(me, c - 1)
               /\ me.calls[c].op = "confirmBurn"
                    => ~(/\ me.result.burnSignature = c - 1
                         /\ me.result.burnedAmountRaw = me.amountRaw)


\* calls k - 1 and k belong to the same swap leg
SameLeg(me, k) ==
  /\ me.calls[k - 1].leg = me.calls[k].leg
  /\ me.calls[k - 1].inputMint = me.calls[k].inputMint
  /\ me.calls[k - 1].amount = me.calls[k].amount

\* the order of the calls a run has made: the balance read is the first call and
\* the only one of its kind; a build request directly follows the quote of its
\* leg, a broadcast the build (which signs), a confirmation the broadcast; a
\* quote follows the balance read, the scan, or the last call of another leg
C16_CallsInOrder ==
  \A r \in Slots :
    LET me == req[r]
    IN  \A k \in 1..Len(me.calls) :
          LET op == me.calls[k].op
              prev == IF k = 1 THEN "" ELSE me.calls[k - 1].op
          IN  /\ (k = 1) <=> (op = "getBalance")
              /\ k > 1 => me.lamports >= 0
              /\ op = "swap" => prev = "quote" /\ SameLeg(me, k)
              /\ op = "sendRawTransaction" => prev = "swap" /\ SameLeg(me, k)
              /\ op = "confirmTransaction" => prev = "sendRawTransaction" /\ SameLeg(me, k)
              /\ op = "quote" => /\ prev \in {"getBalance", "getParsedTokenAccountsByOwner",
                                              "quote", "swap", "sendRawTransaction",
                                              "confirmTransaction"}
                                 /\ prev \in {"quote", "swap", "sendRawTransaction",
                                              "confirmTransaction"}
                                      => me.calls[k - 1].leg # me.calls[k].leg

\* each step of a leg is gated by the success of the one before: a handler comes
\* to await the build request, the broadcast or the confirmation only from the
\* step before it of the same leg, and only when that step did not fail
C16_StepsGated ==
  \A r \in Slots :
    LET a == req[r]
        b == req'[r]
        before == [swap |-> "quote", sendRawTransaction |-> "swap",
                   confirmTransaction |-> "sendRawTransaction"]
    IN  (b # a /\ b.pc \in DOMAIN before)
          => /\ a.pc = before[b.pc]
             /\ faults' = faults
             /\ b.leg = a.leg
             /\ b.cur = a.cur
             /\ b.rets = a.rets
             /\ Len(b.calls) = Len(a.calls) + 1

\* C16: within every swap leg the calls are made in the order quote, build (and
\* sign), broadcast, confirm, each only after the one before succeeded, and the
\* balance read precedes every quote.
C16_LegStepsInOrder == []C16_CallsInOrder /\ [][C16_StepsGated]_vars

\* the calls of the given name the run made for the leg at position i
LegCalls(me, op, i) == {k \in CallsOf(me, op) : me.calls[k].leg = i}

\* C17: a run makes at most one quote request, one build request, one broadcast
\* and one confirmation for each swap leg, and at most one blockhash fetch, one
\* broadcast and one confirmation for the burn, whatever failed on the way.
C17_NoStepRepeated ==
  \A r \in Slots :
    LET me == req[r]
    IN  /\ \A i \in 0..Len(me.tokenAccounts) :
             \A op \in {"quote", "swap", "sendRawTransaction", "confirmTransaction"} :
               Cardinality(LegCalls(me, op, i)) <= 1
        /\ \A op \in {"getBalance", "getTokenAccountBalance", "getLatestBlockhash",
                      "sendBurn", "confirmBurn"} :
             Cardinality(CallsOf(me, op)) <= 1
        /\ \A k \in 1..Len(me.calls) : me.calls[k].leg \in 0..Len(me.tokenAccounts)

\* a run is over in which the quote of one leg failed and the confirmation of
\* another could not be verified, each leg having been quoted once
C17_Witness ==
  LET me == req[1]
  IN  /\ Finished(me)
      /\ \E k \in 1..Len(me.rets) : me.rets[k].ret.step = "quote"
      /\ \E c \in me.unverified : me.calls[c].op = "confirmTransaction"
      /\ Cardinality(CallsOf(me, "quote")) = 2
      /\ Cardinality(CallsOf(me, "sendRawTransaction")) = 1


\* the quote requests of the token stage: those made after the scan
TokenQuotes(me) ==
  {k \in CallsOf(me, "quote") :
     \E j \in 1..(k - 1) : me.calls[j].op = "getParsedTokenAccountsByOwner"}

\* C18: in a run that is over and has scanned the wallet, a swap leg was
\* attempted for a scanned holding if and only if its mint is neither the native
\* pseudo-mint nor the target mint; no quote of the token stage has either of
\* them as input; every token leg asks for the target mint with the wrap flag
\* false, and the native leg is the only one with the flag true.
C18_TokenLegsExactlyTheEligible ==
  \A r \in Slots :
    LET me == req[r]
    IN  (Finished(me) /\ Scanned(me))
          => /\ \A i \in 1..Len(me.tokenAccounts) :
                  LegAttempted(me, i)
                    <=> me.tokenAccounts[i].mint \notin {SOL_MINT_ADDRESS, env.CRYPTOCARDS_MINT}
             /\ \A k \in TokenQuotes(me) :
                  /\ me.calls[k].inputMint \notin {SOL_MINT_ADDRESS, env.CRYPTOCARDS_MINT}
                  /\ me.calls[k].outputMint = env.CRYPTOCARDS_MINT
                  /\ ~me.calls[k].wrapAndUnwrapSol
             /\ \A k \in CallsOf(me, "quote") :
                  me.calls[k].wrapAndUnwrapSol
                    <=> (k = 2 /\ me.calls[k].inputMint = SOL_MINT_ADDRESS)


\* the balance read passed the gate and floor(max(0, balance - reserve) *
\* fraction), taken over the integers, is zero
SpendIsZero(me) ==
  /\ PassedGate(me)
  /\ ExactFloorMul(MaxNat(0, me.lamports - ExactLamports(env.BURN_FEE_RESERVE_SOL)),
                   env.BURN_SAFETY_FRACTION) = 0

\* C19: when the native-coin spend amount is zero, no quote is requested for the
\* native leg, the call after the balance read is the token scan, a run that
\* ends with no token leg has read the target balance, and the result of a run
\* that returned lists the native leg, as skipped.
C19_ZeroSpendSkipsNativeLeg ==
  \A r \in Slots :
    LET me == req[r]
    IN  SpendIsZero(me)
          => /\ \A k \in CallsOf(me, "quote") :
                  /\ me.calls[k].inputMint # SOL_MINT_ADDRESS
                  /\ ~me.calls[k].wrapAndUnwrapSol
             /\ me.pc = "getParsedTokenAccountsByOwner" \/ HasCall(me, "getParsedTokenAccountsByOwner")
             /\ Len(me.calls) >= 2 => me.calls[2].op = "getParsedTokenAccountsByOwner"
             /\ (Finished(me) /\ NoTokenLeg(me)) => HasCall(me, "getTokenAccountBalance")
             /\ (Finished(me) /\ me.result.ok)
                  => \E i \in 1..Len(me.result.swaps) :
                       me.result.swaps[i].inputMint = SOL_MINT_ADDRESS


\* every leg the run attempted has returned
LegsReturned(me) == LegsAttempted(me) = {me.rets[k].leg : k \in 1..Len(me.rets)}

\* where the read of the target balance stands among the calls of a run: it is
\* made once, after both enumerations of the scan, after the native leg when the
\* spend amount is not zero, and after a leg for every eligible holding, all of
\* which have returned; no call of a swap leg follows it; the blockhash fetch is
\* the call after it and the burn broadcast the call after that
C20_ReadAfterLegs ==
  \A r \in Slots :
    LET me == req[r]
    IN  \A k \in CallsOf(me, "getTokenAccountBalance") :
          /\ CallsOf(me, "getTokenAccountBalance") = {k}
          /\ Cardinality({j \in 1..(k - 1) :
                            me.calls[j].op = "getParsedTokenAccountsByOwner"}) = 2
          /\ ~SpendIsZero(me) => (k > 2 /\ me.calls[2].op = "quote" /\ me.calls[2].leg = 0)
          /\ \A i \in 1..Len(me.tokenAccounts) :
               me.tokenAccounts[i].mint \notin {SOL_MINT_ADDRESS, env.CRYPTOCARDS_MINT}
                 => \E j \in 1..(k - 1) : me.calls[j].op = "quote" /\ me.calls[j].leg = i
          /\ LegsReturned(me)
          /\ \A j \in (k + 1)..Len(me.calls) :
               me.calls[j].op \in {"getLatestBlockhash", "sendBurn", "confirmBurn"}
          /\ \A j \in CallsOf(me, "getLatestBlockhash") : j = k + 1
          /\ \A j \in CallsOf(me, "sendBurn") :
               j = k + 2 /\ me.calls[j].amount = me.amountRaw

\* the amount to burn and the burn instruction are set in the step that reads
\* the target balance and in no other step of a run
C20_AmountFromThatRead ==
  \A r \in Slots :
    LET a == req[r]
        b == req'[r]
    IN  (b.pc # "handler" /\ (b.amountRaw # a.amountRaw \/ b.burnIx # a.burnIx))
          => /\ a.pc = "getTokenAccountBalance"
             /\ b.pc = "getLatestBlockhash"
             /\ LastOp(b) = "getTokenAccountBalance"

\* C20: the target balance the burn uses is read after the native leg and all
\* token legs of the run have returned, and the blockhash of the burn is fetched
\* after that read and before the burn broadcast.
C20_TargetReadAfterSwaps == []C20_ReadAfterLegs /\ [][C20_AmountFromThatRead]_vars

\* a run made the native leg and a token leg, then read the target balance,
\* fetched the blockhash and broadcast the burn
C20_Witness ==
  LET me == req[1]
      ops == OpsOf(me.calls)
      n == Len(me.calls)
  IN  /\ n >= 14
      /\ SubSeq(ops, 1, 5) = <<"getBalance", "quote", "swap", "sendRawTransaction",
                               "confirmTransaction">>
      /\ SubSeq(ops, n - 6, n)
           = <<"quote", "swap", "sendRawTransaction", "confirmTransaction",
               "getTokenAccountBalance", "getLatestBlockhash", "sendBurn">>
      /\ me.calls[n].amount = <<1234>>


\* the listed accounts that hold something: parsed info, a mint, and an amount
\* that is not zero
Holding(it) == it.hasInfo /\ it.mint # "" /\ it.hasAmount /\ it.amount # <<>>

\* the scanned holdings are those of a listing of the program, in order
HoldingsOf(items) ==
  LET held == SelectSeq(items, Holding)
  IN  [i \in 1..Len(held) |-> [pubkey |-> held[i].pubkey, mint |-> held[i].mint,
                               amountRaw |-> held[i].amount]]

\* the scanned holdings in brief
Brief(tokenAccounts) ==
  [i \in 1..Len(tokenAccounts) |->
     [pubkey |-> tokenAccounts[i].pubkey, mint |-> tokenAccounts[i].mint,
      amountRaw |-> tokenAccounts[i].amountRaw]]

\* every scanned holding has a mint and a positive raw amount, and a run that is
\* over with both enumerations made and no token leg has read the target balance
C21_OnlyPositiveHoldings ==
  \A r \in Slots :
    LET me == req[r]
    IN  /\ \A i \in 1..Len(me.tokenAccounts) :
             /\ me.tokenAccounts[i].amountRaw # <<>>
             /\ BigToNat(me.tokenAccounts[i].amountRaw) > 0
             /\ me.tokenAccounts[i].mint # ""
             /\ me.tokenAccounts[i].programId \in {TOKEN_PROGRAM_ID, TOKEN_2022_PROGRAM_ID}
        /\ (Finished(me) /\ Scanned(me) /\ NoTokenLeg(me)) => BalanceRead(me)

\* a step of the scan: an enumeration that failed leaves the holdings found so
\* far as they are and the run goes on, to the other enumeration after the
\* first, to a token leg or the read of the target balance after the second; an
\* enumeration that answered adds the holdings of the listing, in order
C21_ScanDegrades ==
  \A r \in Slots :
    LET a == req[r]
        b == req'[r]
    IN  (a.pc = "getParsedTokenAccountsByOwner" /\ b # a)
          => /\ LastOp(b) = "getParsedTokenAccountsByOwner"
             /\ IF a.scanPos = 1
                THEN b.pc = "getParsedTokenAccountsByOwner" /\ b.scanPos = 2
                ELSE b.pc \in {"quote", "getTokenAccountBalance"}
             /\ b.pc = "quote" => eligible(b.tokenAccounts[b.leg], env.CRYPTOCARDS_MINT)
             /\ IF faults' < faults
                THEN b.tokenAccounts = a.tokenAccounts
                ELSE \E items \in Listings(a.scanPos) :
                       Brief(b.tokenAccounts) = Brief(a.tokenAccounts) \o HoldingsOf(items)

DecPositive(dec) == dec.scale > 0 /\ dec.num > 0
DecNotNegative(dec) == dec.scale > 0 /\ dec.num >= 0
DecAtMostOne(dec) == dec.scale > 0 /\ dec.num <= dec.scale

\* a required input is missing or malformed: the wallet address or the target
\* mint is not an address, the threshold is not a positive number, the fee
\* reserve is not a number that is zero or more, the safety fraction is not a
\* number above 0 and at most 1, or the secret is not key material
ConfigMalformed ==
  \/ env.BURN_WALLET \notin Base58Addresses
  \/ env.CRYPTOCARDS_MINT \notin Base58Addresses
  \/ ~DecPositive(env.BURN_THRESHOLD_SOL)
  \/ ~DecNotNegative(env.BURN_FEE_RESERVE_SOL)
  \/ ~(DecPositive(env.BURN_SAFETY_FRACTION) /\ DecAtMostOne(env.BURN_SAFETY_FRACTION))
  \/ env.BURN_WALLET_SECRET.kind # "key"

\* C22: with a required input missing or malformed, no request makes a network
\* call (no balance read, no aggregator request, no broadcast), and every run of
\* runBurnSwap that is over returned a failure.
C22_MalformedConfigIsFatal ==
  ConfigMalformed =>
    \A r \in Slots :
      /\ req[r].calls = <<>>
      /\ Finished(req[r]) => ~req[r].result.ok


\* the step at which the leg at position i failed, "" when it did not
FailedStep(me, i) ==
  IF \E k \in 1..Len(me.rets) : me.rets[k].leg = i /\ ~me.rets[k].ret.ok
  THEN me.rets[CHOOSE k \in 1..Len(me.rets) :
                 me.rets[k].leg = i /\ ~me.rets[k].ret.ok].ret.step
  ELSE ""

\* C23: a leg whose quote response had a non-success status or held no usable
\* route failed at the quote step, and no build request, signature or broadcast
\* was made for it; a leg whose build response had a non-success status or no
\* transaction payload failed at the build step, and nothing was broadcast for it.
C23_QuoteAndBuildFailuresStopTheLeg ==
  \A r \in Slots :
    LET me == req[r]
    IN  /\ \A q \in me.routeless :
             LET i == me.calls[q].leg
             IN  /\ LegCalls(me, "swap", i) = {}
                 /\ LegCalls(me, "sendRawTransaction", i) = {}
                 /\ (\E k \in 1..Len(me.rets) : me.rets[k].leg = i)
                      => FailedStep(me, i) = "quote"
        /\ \A i \in 0..Len(me.tokenAccounts) :
             /\ FailedStep(me, i) = "quote"
                  => /\ LegCalls(me, "swap", i) = {}
                     /\ LegCalls(me, "sendRawTransaction", i) = {}
             /\ FailedStep(me, i) = "swap_build"
                  => /\ LegCalls(me, "sendRawTransaction", i) = {}
                     /\ LegCalls(me, "confirmTransaction", i) = {}


\* the leg an entry of swaps stands for: that of the broadcast whose signature
\* it carries
LegOfEntry(me, e) == me.calls[e.signature].leg

\* C24: in the result of a run that is over, every entry of swaps carries the
\* signature of a broadcast of that run that succeeded, with the input mint and
\* the amount of the quote of its leg; the entries are in execution order, a
\* native-coin entry first and token entries in scan order; and a leg whose
\* quote, build or broadcast failed has no entry.
C24_SwapsEntriesAreBroadcasts ==
  \A r \in Slots :
    LET me == req[r]
        swaps == me.result.swaps
    IN  Finished(me)
          => /\ \A n \in 1..Len(swaps) :
                  LET e == swaps[n]
                      k == e.signature
                  IN  /\ k \in 1..Len(me.calls)
                      /\ me.calls[k].op = "sendRawTransaction"
                      /\ FailedStep(me, me.calls[k].leg) = ""
                      /\ e.inputMint = me.calls[k].inputMint
                      /\ e.amount = me.calls[k].amount
                      /\ \E q \in LegCalls(me, "quote", me.calls[k].leg) :
                           /\ q < k
                           /\ me.calls[q].inputMint = e.inputMint
                           /\ me.calls[q].amount = e.amount
                      /\ (e.inputMint = SOL_MINT_ADDRESS) <=> (me.calls[k].leg = 0)
                      /\ me.calls[k].leg = 0 => n = 1
                      /\ me.calls[k].leg > 0
                           => e.inputMint = me.tokenAccounts[me.calls[k].leg].mint
             /\ \A n, m \in 1..Len(swaps) :
                  n < m => /\ swaps[n].signature < swaps[m].signature
                           /\ LegOfEntry(me, swaps[n]) < LegOfEntry(me, swaps[m])
             /\ \A i \in 0..Len(me.tokenAccounts) :
                  FailedStep(me, i) # ""
                    => \A n \in 1..Len(swaps) : LegOfEntry(me, swaps[n]) # i

\* a run returned two entries, the native coin and then the second holding, the
\* leg of the first holding having failed
C24_Witness ==
  LET me == req[1]
  IN  /\ me.pc = "responded"
      /\ me.result.ok
      /\ Len(me.result.swaps) = 2
      /\ me.result.swaps[1].inputMint = SOL_MINT_ADDRESS
      /\ me.result.swaps[2].inputMint = "B"
      /\ FailedStep(me, 1) # ""


\* C25: in the result of a run that returned ok = true, burnSignature is set if
\* and only if burnedAmountRaw is a positive amount; after a burn broadcast that
\* failed both have their initial values; after one that succeeded the
\* signature is that of the broadcast and the amount is the whole balance read,
\* also when the confirmation raised an error.
C25_BurnSignatureIffBurnedAmount ==
  \A r \in Slots :
    LET me == req[r]
        res == me.result
    IN  (Finished(me) /\ res.ok)
          => /\ (res.burnSignature # 0) <=> (res.burnedAmountRaw # <<>>)
             /\ res.burnedAmountRaw # <<>>
                  => res.burnedAmountRaw[Len(res.burnedAmountRaw)] > 0
             /\ (LastOp(me) = "sendBurn")
                  => res.burnSignature = 0 /\ res.burnedAmountRaw = <<>>
             /\ \A c \in CallsOf(me, "confirmBurn") :
                  /\ me.calls[c - 1].op = "sendBurn"
                  /\ res.burnSignature = c - 1
                  /\ res.burnedAmountRaw = me.calls[c - 1].amount
                  /\ res.burnedAmountRaw = me.amountRaw
             /\ res.burnSignature # 0 => HasCall(me, "confirmBurn")

\* a run was answered 200 with the signature of its burn and the whole balance
\* 1234 as burned, the confirmation of the burn having raised an error
C25_Witness ==
  LET me == req[1]
  IN  /\ me.pc = "responded"
      /\ me.status = 200
      /\ me.result.burnSignature # 0
      /\ me.result.burnedAmountRaw = <<1234>>
      /\ \E c \in me.unverified : me.calls[c].op = "confirmBurn"


\* no shared secret is configured: BURN_AUTH_TOKEN is empty once trimmed
NoAuthSecret == Trim(env.BURN_AUTH_TOKEN) = <<>>

\* C26: with no shared secret configured, no request starts runBurnSwap,
\* whatever its x-burn-auth header: no handler has run it or made a call, and
\* every request answered was answered 500 worker_missing_auth_token.
C26_NoSecretNoRun ==
  NoAuthSecret =>
    /\ \A r \in Slots :
         LET me == req[r]
         IN  /\ ~me.ran
             /\ me.calls = <<>>
             /\ me.pc \in {"idle", "handler", "responded"}
             /\ me.pc = "responded"
                  => /\ me.status = 500
                     /\ me.result = Failure("worker_missing_auth_token")
    /\ last \in {NoResponse, [status |-> 500, error |-> "worker_missing_auth_token"]}

\* with no secret configured, a request whose header is empty was answered 500
\* and did not run
C26_Witness ==
  /\ NoAuthSecret
  /\ req[1].pc = "responded"
  /\ req[1].hdr = Header(<<>>)
  /\ req[1].status = 500
  /\ ~req[1].ran


\* num / scale < c over the rationals, for a decimal literal and a natural c
LitBelow(lit, c) ==
  BigLess(BigFromNat(lit.num), BigMulSmall(BigFromNat(c), lit.scale))

\* the amount the v6 handler computes from the balance: balance - 2_000_000
V6Computed(me) == me.balanceLamports - 2000000

\* a double that is a natural number below 2^31, as that number
AsNat(a) == BigToNat(a.m)

\* C27: in the v6 variant the amount of every quote request is an integer above
\* 0 and at most the balance less 2_000_000 lamports; it differs from that
\* computed amount only when the body's amountLamports is a number strictly
\* between 0 and the computed amount, and is then that number rounded down.
C27_BodyOnlyLowersAmount ==
  (probe.fn = "v6") =>
    \A k \in 1..Len(probe.calls) :
      probe.calls[k].op = "quote"
        => LET amt == probe.calls[k].amount
               b == probe.body
               between == /\ b.present /\ b.type = "number" /\ ~b.neg /\ ~b.inf
                          /\ b.lit.num > 0
                          /\ LitBelow(b.lit, V6Computed(probe))
           IN  /\ amt.e = 0
               /\ AsNat(amt) > 0
               /\ AsNat(amt) <= V6Computed(probe)
               /\ AsNat(amt) # V6Computed(probe) => between
               /\ between => AsNat(amt) = b.lit.num \div b.lit.scale
=============================================================================
